---- MODULE Spec2Model ----
(***************************************************************************)
(* A model of UPClientZenoh (src/up_client_zenoh/upclientzenoh.py): the    *)
(* uProtocol transport adapter over a Zenoh session.                       *)
(*                                                                         *)
(* State: the four registries of the adapter (subscriber_map,              *)
(* queryable_map, rpc_callback_map, query_map), the queryable closures the *)
(* Zenoh session holds, the record of the last adapter call (its           *)
(* arguments, what it returned or raised and the collaborator calls it     *)
(* made, in order), and the state machine of one invoke_method call.       *)
(*                                                                         *)
(* Every Python method is an operator that computes the method's result    *)
(* from the current registries and from the outcomes of the collaborators  *)
(* it calls (the Zenoh session, ZenohUtils); the actions draw those        *)
(* outcomes with \E.                                                       *)
(***************************************************************************)
EXTENDS Naturals, Sequences, FiniteSets

VARIABLES
    subscriber_map,     \* (serialized topic, listener) -> Subscriber handle
    queryable_map,      \* (serialized topic, listener) -> Queryable handle
    rpc_callback_map,   \* serialized topic -> response listener
    query_map,          \* serialized request id -> Query
    session,            \* the listeners captured by the queryable closures that the
                        \* Zenoh session holds
    last,               \* the last completed adapter call or inbound callback
    inv,                \* the invoke_method call in progress
    threads,            \* thread -> the call it is in, statement by statement, and
                        \* the locks it holds
    closures,           \* the subscriber and query-reply closures that the Zenoh
                        \* session holds (thread-level specifications)
    replied             \* request id of a Query that Zenoh has handed to a queryable
                        \* closure -> the number of query.reply calls made on it
                        \* (thread-level specifications)

vars ==
    <<subscriber_map, queryable_map, rpc_callback_map, query_map, session, last, inv,
      threads, closures, replied>>

registries == <<subscriber_map, queryable_map, rpc_callback_map, query_map>>

(***************************************************************************)
(* Bounds of the model.                                                    *)
(***************************************************************************)
\* request ids 1..NumReqIds occur in requests and responses
NumReqIds == 2
\* the reply stream of one invoke_method call holds at most MaxReplies replies
MaxReplies == 3
\* application and Zenoh threads that run calls of the adapter concurrently
NumThreads == 2
\* calls of the adapter a listener makes from inside one on_receive
MaxListenerCalls == 1

(***************************************************************************)
(* Values.                                                                 *)
(***************************************************************************)
Listeners == {"l1", "l2"}

\* UUri: authority, entity, resource (its name path); "" and <<>> are unset fields
WildcardTopic == [authority |-> "auth", entity |-> "", resource |-> <<>>]
PublishTopic == [authority |-> "auth", entity |-> "body", resource |-> <<"door", "open">>]
RequestTopic == [authority |-> "auth", entity |-> "body", resource |-> <<"rpc", "lock">>]
ResponseTopic == [authority |-> "auth", entity |-> "body", resource |-> <<"rpc", "response">>]

Topics == {WildcardTopic, PublishTopic, RequestTopic, ResponseTopic}

ReqIds == 1..NumReqIds

\* UCode values the adapter returns
StatusCodes == {"OK", "INVALID_ARGUMENT", "INTERNAL"}

\* what a call can end with besides a UStatus: a plain return (None), or an
\* exception leaving the method
Exceptions == {"ValueError", "ZError", "TypeError"}

\* a dict as a function on the keys present
EmptyMap == [k \in {} |-> k]

Put(m, k, v) == [x \in DOMAIN m \cup {k} |-> IF x = k THEN v ELSE m[x]]

Pop(m, k) == [x \in DOMAIN m \ {k} |-> m[x]]

\* UUri.SerializeToString: the fields in field order
Serialize(topic) == <<topic.authority, topic.entity, topic.resource>>

\* ZenohUtils.to_zenoh_key_string: the key expression of a topic
to_zenoh_key_string(topic) ==
    IF topic.entity = "" /\ topic.resource = <<>>
    THEN <<"upr", topic.authority, "**">>
    ELSE <<"upr", topic.authority, topic.entity>> \o topic.resource

\* the special UUri of register_listener and unregister_listener: an authority,
\* no entity, no resource
IsWildcard(topic) == topic.authority # "" /\ topic.entity = "" /\ topic.resource = <<>>

\* UriValidator.is_rpc_response
is_rpc_response(topic) == topic.resource = <<"rpc", "response">>

\* UriValidator.is_rpc_method
is_rpc_method(topic) == Len(topic.resource) > 0 /\ topic.resource[1] = "rpc"

(***************************************************************************)
(* Listener registration (register_listener and the three methods under    *)
(* it). dq and ds are what session.declare_queryable and                   *)
(* session.declare_subscriber do: grant a handle, raise, or (subscriber)   *)
(* return nothing. The closure handed to declare_queryable reads, of what  *)
(* it captures, the listener alone: the session keeps that.                *)
(***************************************************************************)
DeclareQueryableOutcomes == {"handle", "raise"}

DeclareSubscriberOutcomes == {"handle", "none", "raise"}

\* the outcomes of the declarations register_listener makes for a topic ("unused":
\* the primitive is not called)
DeclareOutcomes(topic) ==
    LET wild == IsWildcard(topic)
        resp == is_rpc_response(topic)
        req == ~resp /\ is_rpc_method(topic)
    IN  (IF wild \/ req THEN DeclareQueryableOutcomes ELSE {"unused"})
            \X (IF wild \/ (~resp /\ ~req) THEN DeclareSubscriberOutcomes ELSE {"unused"})

\* The objects session.declare_subscriber and session.declare_queryable return.
\* serial tells a handle from the other handles of its key that are still
\* referenced (an object's identity); where the calls are taken one at a time and
\* whole, handles are not told apart (serial 0).
SubscriberHandle(topic, listener, serial) ==
    [kind |-> "Subscriber", key_expr |-> to_zenoh_key_string(topic), listener |-> listener,
     serial |-> serial]

QueryableHandle(topic, listener, serial) ==
    [kind |-> "Queryable", key_expr |-> to_zenoh_key_string(topic), listener |-> listener,
     serial |-> serial]

Call(fn, out) == <<fn, out>>

register_publish_notification_listener(topic, listener, ds) ==
    IF ds = "handle"
    THEN [status |-> "OK",
          map |-> Put(subscriber_map, <<Serialize(topic), listener>>,
                      SubscriberHandle(topic, listener, 0)),
          calls |-> <<Call("declare_subscriber", ds)>>]
    ELSE [status |-> "INTERNAL",
          map |-> subscriber_map,
          calls |-> <<Call("declare_subscriber", ds)>>]

register_request_listener(topic, listener, dq) ==
    IF dq = "handle"
    THEN [status |-> "OK",
          map |-> Put(queryable_map, <<Serialize(topic), listener>>,
                      QueryableHandle(topic, listener, 0)),
          declared |-> session \cup {listener},
          calls |-> <<Call("declare_queryable", dq)>>]
    ELSE [status |-> "INTERNAL",
          map |-> queryable_map,
          declared |-> session,
          calls |-> <<Call("declare_queryable", dq)>>]

register_response_listener(topic, listener) ==
    [status |-> "OK",
     map |-> Put(rpc_callback_map, Serialize(topic), listener),
     calls |-> <<>>]

\* as RegistrationStatus, with a success of any one registration taken for success
RegistrationStatus_any(statuses) ==
    IF \E s \in statuses : s = "OK" THEN "OK" ELSE "INTERNAL"

\* the status register_listener returns for the statuses of the registrations it made
RegistrationStatus(statuses) ==
    IF \A s \in statuses : s = "OK" THEN "OK" ELSE "INTERNAL"

register_listener(topic, listener, dq, ds) ==
    LET resp == register_response_listener(topic, listener)
        req == register_request_listener(topic, listener, dq)
        pub == register_publish_notification_listener(topic, listener, ds)
    IN  IF IsWildcard(topic)
        THEN [ret |-> RegistrationStatus({resp.status, req.status, pub.status}),
              rm |-> resp.map, qm |-> req.map, sm |-> pub.map,
              declared |-> req.declared,
              calls |-> resp.calls \o req.calls \o pub.calls]
        ELSE IF is_rpc_response(topic)
        THEN [ret |-> RegistrationStatus({resp.status}),
              rm |-> resp.map, qm |-> queryable_map, sm |-> subscriber_map,
              declared |-> session,
              calls |-> resp.calls]
        ELSE IF is_rpc_method(topic)
        THEN [ret |-> RegistrationStatus({req.status}),
              rm |-> rpc_callback_map, qm |-> req.map, sm |-> subscriber_map,
              declared |-> req.declared,
              calls |-> req.calls]
        ELSE [ret |-> RegistrationStatus({pub.status}),
              rm |-> rpc_callback_map, qm |-> queryable_map, sm |-> pub.map,
              declared |-> session,
              calls |-> pub.calls]

(***************************************************************************)
(* Listener removal (unregister_listener and the three methods under it).  *)
(* A removal of an absent key raises ValueError, which ends                *)
(* unregister_listener at once; otherwise the method returns None.         *)
(***************************************************************************)
remove_response_listener(topic) ==
    IF Serialize(topic) \in DOMAIN rpc_callback_map
    THEN [raised |-> FALSE, map |-> Pop(rpc_callback_map, Serialize(topic))]
    ELSE [raised |-> TRUE, map |-> rpc_callback_map]

remove_publish_listener(topic, listener) ==
    IF <<Serialize(topic), listener>> \in DOMAIN subscriber_map
    THEN [raised |-> FALSE, map |-> Pop(subscriber_map, <<Serialize(topic), listener>>)]
    ELSE [raised |-> TRUE, map |-> subscriber_map]

remove_request_listener(topic, listener) ==
    IF <<Serialize(topic), listener>> \in DOMAIN queryable_map
    THEN [raised |-> FALSE, map |-> Pop(queryable_map, <<Serialize(topic), listener>>)]
    ELSE [raised |-> TRUE, map |-> queryable_map]

\* as unregister_listener, with the wildcard topic's subscription left in place
unregister_listener_keeps_subscription(topic, listener) ==
    LET wild == IsWildcard(topic)
        resp == IF wild \/ is_rpc_response(topic)
                THEN remove_response_listener(topic)
                ELSE [raised |-> FALSE, map |-> rpc_callback_map]
        req == IF ~resp.raised /\ (wild \/ (~is_rpc_response(topic) /\ is_rpc_method(topic)))
               THEN remove_request_listener(topic, listener)
               ELSE [raised |-> FALSE, map |-> queryable_map]
        pub == IF ~resp.raised /\ ~req.raised /\ ~wild
                  /\ ~is_rpc_response(topic) /\ ~is_rpc_method(topic)
               THEN remove_publish_listener(topic, listener)
               ELSE [raised |-> FALSE, map |-> subscriber_map]
    IN  [ret |-> IF resp.raised \/ req.raised \/ pub.raised THEN "ValueError" ELSE "None",
         rm |-> resp.map, qm |-> req.map, sm |-> pub.map,
         calls |-> <<>>]

unregister_listener(topic, listener) ==
    LET wild == IsWildcard(topic)
        remove_resp_listener == wild \/ is_rpc_response(topic)
        remove_req_listener ==
            wild \/ (~is_rpc_response(topic) /\ is_rpc_method(topic))
        remove_pub_listener ==
            wild \/ (~is_rpc_response(topic) /\ ~is_rpc_method(topic))
        resp == IF remove_resp_listener
                THEN remove_response_listener(topic)
                ELSE [raised |-> FALSE, map |-> rpc_callback_map]
        req == IF ~resp.raised /\ remove_req_listener
               THEN remove_request_listener(topic, listener)
               ELSE [raised |-> FALSE, map |-> queryable_map]
        pub == IF ~resp.raised /\ ~req.raised /\ remove_pub_listener
               THEN remove_publish_listener(topic, listener)
               ELSE [raised |-> FALSE, map |-> subscriber_map]
    IN  [ret |-> IF resp.raised \/ req.raised \/ pub.raised THEN "ValueError" ELSE "None",
         rm |-> resp.map, qm |-> req.map, sm |-> pub.map,
         calls |-> <<>>]

(***************************************************************************)
(* Outbound messages. A UMessage is a payload and its attributes; the      *)
(* unset UUri is NoUri, the unset id is 0.                                 *)
(***************************************************************************)
NoUri == [authority |-> "", entity |-> "", resource |-> <<>>]

Payloads == {[value |-> ""], [value |-> "data"]}

UAttrs(type, source, sink, id, reqid) ==
    [type |-> type, source |-> source, sink |-> sink, id |-> id, reqid |-> reqid]

PublishAttributes == {UAttrs("PUBLISH", PublishTopic, NoUri, 0, 0)}

NotificationAttributes == {UAttrs("NOTIFICATION", PublishTopic, ResponseTopic, 0, 0)}

RequestAttributes ==
    {UAttrs("REQUEST", src, RequestTopic, id, 0) :
        src \in {ResponseTopic, WildcardTopic}, id \in ReqIds}

ResponseAttributes ==
    {UAttrs("RESPONSE", RequestTopic, ResponseTopic, 0, reqid) : reqid \in ReqIds}

UnspecifiedAttributes == {UAttrs("UNSPECIFIED", NoUri, NoUri, 0, 0)}

\* attributes that break the rules of their type: a Notification without sink, a
\* Request without id, a Request without sink, a Response without reqid
InvalidAttributes ==
    {UAttrs("NOTIFICATION", PublishTopic, NoUri, 0, 0),
     UAttrs("REQUEST", ResponseTopic, RequestTopic, 0, 0),
     UAttrs("REQUEST", ResponseTopic, NoUri, 1, 0),
     UAttrs("RESPONSE", RequestTopic, ResponseTopic, 0, 0)}

Messages ==
    [payload : Payloads,
     attributes : PublishAttributes \cup NotificationAttributes \cup RequestAttributes
                      \cup ResponseAttributes \cup UnspecifiedAttributes
                      \cup InvalidAttributes]

\* Validators.<TYPE>.validator().validate(attributes): the rules of the type (a
\* Publish has a source and no sink, a Notification a source and a sink, a Request
\* a sink and an id, a Response a reqid)
validate(attributes) ==
    LET type == attributes.type
        holds ==
            IF type = "PUBLISH" THEN attributes.source # NoUri /\ attributes.sink = NoUri
            ELSE IF type = "NOTIFICATION"
            THEN attributes.source # NoUri /\ attributes.sink # NoUri
            ELSE IF type = "REQUEST" THEN attributes.sink # NoUri /\ attributes.id # 0
            ELSE IF type = "RESPONSE" THEN attributes.reqid # 0
            ELSE FALSE
    IN  IF holds THEN "success" ELSE "failure"

\* UUID.SerializeToString
SerializeId(id) == <<"uuid", id>>

\* What the collaborators of one send do: ZenohUtils.uattributes_to_attachment
\* (an attachment, or nothing), ZenohUtils.map_zenoh_priority (a priority, or
\* nothing), session.put, session.get and query.reply (return, or raise).
\* A primitive the message's path does not call is "unused".
SendEnvs(message) ==
    LET type == message.attributes.type
        pubnot == type \in {"PUBLISH", "NOTIFICATION"}
    IN  [enc : IF type = "UNSPECIFIED" THEN {"unused"} ELSE {"ok", "fail"},
         prio : IF pubnot THEN {"ok", "fail"} ELSE {"unused"},
         put : IF pubnot THEN {"ok", "raise"} ELSE {"unused"},
         get : IF type = "REQUEST" THEN {"ok", "raise"} ELSE {"unused"},
         reply : IF type = "RESPONSE" THEN {"ok", "raise"} ELSE {"unused"}]

\* as send_publish_notification, with the priority mapped and not looked at
send_publish_notification_any_priority(zenoh_key, payload, attributes, env) ==
    IF payload.value = ""
    THEN [ret |-> "INVALID_ARGUMENT", qm |-> query_map, calls |-> <<>>]
    ELSE IF env.enc = "fail"
    THEN [ret |-> "INVALID_ARGUMENT", qm |-> query_map,
          calls |-> <<Call("uattributes_to_attachment", env.enc)>>]
    ELSE [ret |-> IF env.put = "ok" THEN "OK" ELSE "INTERNAL",
          qm |-> query_map,
          calls |-> <<Call("uattributes_to_attachment", env.enc),
                      Call("map_zenoh_priority", env.prio),
                      Call("put", env.put)>>]

\* send_publish_notification: the payload, the attachment, the priority, then
\* session.put inside a try
send_publish_notification(zenoh_key, payload, attributes, env) ==
    IF payload.value = ""
    THEN [ret |-> "INVALID_ARGUMENT", qm |-> query_map, calls |-> <<>>]
    ELSE IF env.enc = "fail"
    THEN [ret |-> "INVALID_ARGUMENT", qm |-> query_map,
          calls |-> <<Call("uattributes_to_attachment", env.enc)>>]
    ELSE IF env.prio = "fail"
    THEN [ret |-> "INVALID_ARGUMENT", qm |-> query_map,
          calls |-> <<Call("uattributes_to_attachment", env.enc),
                      Call("map_zenoh_priority", env.prio)>>]
    ELSE [ret |-> IF env.put = "ok" THEN "OK" ELSE "INTERNAL",
          qm |-> query_map,
          calls |-> <<Call("uattributes_to_attachment", env.enc),
                      Call("map_zenoh_priority", env.prio),
                      Call("put", env.put)>>]

\* as HasResponseCallback, with any registered response listener taken for the
\* source's
HasResponseCallback_any(attributes) == rpc_callback_map # EmptyMap

\* send_request looks the response listener up by the serialized source
HasResponseCallback(attributes) == Serialize(attributes.source) \in DOMAIN rpc_callback_map

\* session.get is called outside any try: what it raises leaves send_request
send_request(zenoh_key, payload, attributes, env) ==
    IF payload.value = ""
    THEN [ret |-> "INVALID_ARGUMENT", qm |-> query_map, calls |-> <<>>]
    ELSE IF env.enc = "fail"
    THEN [ret |-> "INVALID_ARGUMENT", qm |-> query_map,
          calls |-> <<Call("uattributes_to_attachment", env.enc)>>]
    ELSE IF ~HasResponseCallback(attributes)
    THEN [ret |-> "INTERNAL", qm |-> query_map,
          calls |-> <<Call("uattributes_to_attachment", env.enc)>>]
    ELSE [ret |-> IF env.get = "ok" THEN "OK" ELSE "ZError",
          qm |-> query_map,
          calls |-> <<Call("uattributes_to_attachment", env.enc),
                      Call("get", env.get)>>]

\* the pending-query registry after send_response's pop
PoppedQueryMap(reqid) == Pop(query_map, SerializeId(reqid))

\* as send_response, without the check of what the pop found
send_response_unchecked(payload, attributes, env) ==
    [ret |-> IF env.reply = "ok" THEN "OK" ELSE "INTERNAL",
     qm |-> PoppedQueryMap(attributes.reqid),
     calls |-> <<Call("uattributes_to_attachment", env.enc), Call("reply", env.reply)>>]

\* the attachment is built first and not looked at; the query is popped before
\* the reply is tried
send_response(payload, attributes, env) ==
    IF SerializeId(attributes.reqid) \notin DOMAIN query_map
    THEN [ret |-> "INTERNAL", qm |-> PoppedQueryMap(attributes.reqid),
          calls |-> <<Call("uattributes_to_attachment", env.enc)>>]
    ELSE [ret |-> IF env.reply = "ok" THEN "OK" ELSE "INTERNAL",
          qm |-> PoppedQueryMap(attributes.reqid),
          calls |-> <<Call("uattributes_to_attachment", env.enc),
                      Call("reply", env.reply)>>]

\* the validators' results are not looked at
send(message, env) ==
    LET payload == message.payload
        attributes == message.attributes
        msg_type == attributes.type
        validation == validate(attributes)
    IN  IF msg_type = "PUBLISH"
        THEN send_publish_notification(to_zenoh_key_string(attributes.source),
                                       payload, attributes, env)
        ELSE IF msg_type = "NOTIFICATION"
        THEN send_publish_notification(to_zenoh_key_string(attributes.sink),
                                       payload, attributes, env)
        ELSE IF msg_type = "REQUEST"
        THEN send_request(to_zenoh_key_string(attributes.sink), payload, attributes, env)
        ELSE IF msg_type = "RESPONSE"
        THEN send_response(payload, attributes, env)
        ELSE [ret |-> "INVALID_ARGUMENT", qm |-> query_map, calls |-> <<>>]

(***************************************************************************)
(* The queryable callback (the closure register_request_listener hands to  *)
(* session.declare_queryable): Zenoh calls it with a query for a closure   *)
(* it holds. A query carries its key expression, the attachment (<<>> when *)
(* absent, else the id of the request in it) and a value ("none" when      *)
(* absent, else whether its encoding maps to a payload format).            *)
(***************************************************************************)
Queries ==
    [key_expr : {to_zenoh_key_string(RequestTopic)},
     attachment : {<<>>} \cup {<<id>> : id \in ReqIds},
     value : {"none", "ok", "badenc"}]

\* ZenohUtils.attachment_to_uattributes: the attributes, or a UStatus
DecodeOutcomes == {"ok", "status"}

queryable_callback(listener, query, dec) ==
    IF query.attachment = <<>>
    THEN [ret |-> "INTERNAL", qm |-> query_map, calls |-> <<>>]
    ELSE IF dec = "status"
    THEN [ret |-> "INTERNAL", qm |-> query_map,
          calls |-> <<Call("attachment_to_uattributes", dec)>>]
    ELSE IF query.value = "badenc"
    THEN [ret |-> "INTERNAL", qm |-> query_map,
          calls |-> <<Call("attachment_to_uattributes", dec),
                      Call("to_upayload_format", "fail")>>]
    ELSE [ret |-> "None",
          qm |-> Put(query_map, SerializeId(query.attachment[1]), query),
          calls |-> <<Call("attachment_to_uattributes", dec),
                      Call("on_receive", listener)>>]

(***************************************************************************)
(* invoke_method: one blocking call. session.get hands back the reply      *)
(* stream of the query (or raises); the method then reads the stream. A    *)
(* reply is "ok" (a sample whose encoding maps to a payload format),       *)
(* "badenc" (a sample whose encoding does not), "err" (an error reply) or  *)
(* "timeout" (the error reply Zenoh closes the stream with when the ttl    *)
(* expires). A `raise UStatus(...)` raises TypeError, UStatus being no     *)
(* exception; the except clause catches it (as it catches what session.get *)
(* raises) and its own `raise UStatus(...)` raises the TypeError that      *)
(* leaves the method.                                                      *)
(***************************************************************************)
RECURSIVE SeqsUpTo(_, _)
SeqsUpTo(S, n) ==
    IF n = 0
    THEN {<<>>}
    ELSE LET shorter == SeqsUpTo(S, n - 1)
         IN  shorter \cup {Append(q, x) : q \in {r \in shorter : Len(r) = n - 1}, x \in S}

ReplyStreams ==
    {body \o closing : body \in SeqsUpTo({"ok", "badenc", "err"}, MaxReplies),
                       closing \in {<<>>, <<"timeout">>}}

InvokeTopics == {RequestTopic, PublishTopic}

\* uattributes of the call, carried by the UMessage of the result: the request
\* from get_response_uuri() to topic
InvokeAttributes(topic) == UAttrs("REQUEST", ResponseTopic, topic, 0, 0)

NoResult == [kind |-> "pending"]

Raised(exc) == [kind |-> "raise", exc |-> exc]

ReturnedNone == [kind |-> "return", value |-> "None"]

\* a Future on which set_result(umessage) was called once
ResolvedFuture(umessage) == [kind |-> "future", state |-> "result", value |-> umessage]

\* the UMessage invoke_method builds from the reply at a position of the stream
ReplyMessage(topic, position) ==
    [attributes |-> InvokeAttributes(topic),
     payload |-> [value |-> <<"reply", position>>]]

\* The part of invoke_method up to and including session.get. delivered is the
\* whole reply stream of the query, stream what is still unread of it.
invoke_method_issue(topic, payload, valid, get, replies) ==
    IF ~valid \/ payload.value = ""
    THEN [pc |-> "Rejected", topic |-> topic, delivered |-> <<>>, stream |-> <<>>,
          futures |-> 0, result |-> Raised("TypeError")]
    ELSE IF get = "raise"
    THEN [pc |-> "Completed_error", topic |-> topic, delivered |-> <<>>, stream |-> <<>>,
          futures |-> 0, result |-> Raised("TypeError")]
    ELSE [pc |-> "Issued", topic |-> topic, delivered |-> replies, stream |-> replies,
          futures |-> 0, result |-> NoResult]

\* as invoke_method_receive, with the loop going on to the next reply after a
\* reply it cannot use
RECURSIVE invoke_method_receive_skipping(_)
invoke_method_receive_skipping(call) ==
    IF call.stream = <<>>
    THEN [call EXCEPT !.pc = "NoReply", !.result = ReturnedNone]
    ELSE LET reply == Head(call.stream)
             position == Len(call.delivered) - Len(call.stream) + 1
             rest == [call EXCEPT !.stream = Tail(call.stream)]
         IN  IF reply = "ok"
             THEN [rest EXCEPT !.pc = "Completed_ok", !.futures = call.futures + 1,
                               !.result = ResolvedFuture(ReplyMessage(call.topic, position))]
             ELSE IF reply = "timeout"
             THEN [rest EXCEPT !.pc = "TimedOut", !.result = Raised("TypeError")]
             ELSE invoke_method_receive_skipping(rest)

\* the loop over get_builder.receiver: its first iteration returns or raises
invoke_method_receive(call) ==
    IF call.stream = <<>>
    THEN [call EXCEPT !.pc = "NoReply", !.result = ReturnedNone]
    ELSE LET reply == Head(call.stream)
             position == Len(call.delivered) - Len(call.stream) + 1
             rest == [call EXCEPT !.stream = Tail(call.stream)]
         IN  IF reply = "ok"
             THEN [rest EXCEPT !.pc = "Completed_ok", !.futures = call.futures + 1,
                               !.result = ResolvedFuture(ReplyMessage(call.topic, position))]
             ELSE IF reply = "timeout"
             THEN [rest EXCEPT !.pc = "TimedOut", !.result = Raised("TypeError")]
             ELSE [rest EXCEPT !.pc = "Completed_error", !.result = Raised("TypeError")]

(***************************************************************************)
(* The methods statement by statement, for the interleavings of threads.   *)
(* A method is the sequence of its statements that touch shared state: a   *)
(* lock taken or released by a `with`, a read or write of a registry, a    *)
(* call of a collaborator, a call of a listener. A statement is            *)
(*   line  its line in upclientzenoh.py                                    *)
(*   do    what it does                                                    *)
(*   obj   the lock, registry or collaborator it does it to                *)
(*   skip  how many of the statements after it are left out when it fails  *)
(*         (the method goes on after them)                                 *)
(*   fail  the status code the method then returns                         *)
(*   arg   the topic, listener and id it works on                          *)
(***************************************************************************)
Threads == 1..NumThreads

\* the locks __init__ creates
Locks == {"rpc_callback_lock", "queryable_lock", "subscriber_lock"}

Arg(topic, listener, id) == [topic |-> topic, listener |-> listener, id |-> id]

Instr(line, do, obj, skip, fail, arg) ==
    [line |-> line, do |-> do, obj |-> obj, skip |-> skip, fail |-> fail, arg |-> arg]

register_response_listener_steps(topic, listener) ==
    LET a == Arg(topic, listener, 0)
    IN  <<Instr(299, "acquire", "rpc_callback_lock", 0, "", a),
          Instr(300, "store", "rpc_callback_map", 0, "", a),
          Instr(301, "release", "rpc_callback_lock", 0, "", a)>>

register_request_listener_steps(topic, listener) ==
    LET a == Arg(topic, listener, 0)
    IN  <<Instr(288, "declare", "declare_queryable", 3, "INTERNAL", a),
          Instr(289, "acquire", "queryable_lock", 0, "", a),
          Instr(290, "store", "queryable_map", 0, "", a),
          Instr(290, "release", "queryable_lock", 0, "", a)>>

register_publish_notification_listener_steps(topic, listener) ==
    LET a == Arg(topic, listener, 0)
    IN  <<Instr(236, "declare", "declare_subscriber", 3, "INTERNAL", a),
          Instr(238, "acquire", "subscriber_lock", 0, "", a),
          Instr(239, "store", "subscriber_map", 0, "", a),
          Instr(239, "release", "subscriber_lock", 0, "", a)>>

register_listener_steps(topic, listener) ==
    LET a == Arg(topic, listener, 0)
    IN  IF IsWildcard(topic)
        THEN register_response_listener_steps(topic, listener)
                 \o register_request_listener_steps(topic, listener)
                 \o register_publish_notification_listener_steps(topic, listener)
                 \o <<Instr(340, "return", "status", 0, "", a)>>
        ELSE (IF is_rpc_response(topic)
              THEN register_response_listener_steps(topic, listener)
              ELSE IF is_rpc_method(topic)
              THEN register_request_listener_steps(topic, listener)
              ELSE register_publish_notification_listener_steps(topic, listener))
                 \o <<Instr(355, "return", "status", 0, "", a)>>

\* a removal pops the entry under the registry's lock and raises when there was none
remove_response_listener_steps(topic, listener) ==
    LET a == Arg(topic, listener, 0)
    IN  <<Instr(385, "acquire", "rpc_callback_lock", 0, "", a),
          Instr(386, "remove", "rpc_callback_map", 0, "ValueError", a),
          Instr(386, "release", "rpc_callback_lock", 0, "", a)>>

remove_publish_listener_steps(topic, listener) ==
    LET a == Arg(topic, listener, 0)
    IN  <<Instr(390, "acquire", "subscriber_lock", 0, "", a),
          Instr(391, "remove", "subscriber_map", 0, "ValueError", a),
          Instr(391, "release", "subscriber_lock", 0, "", a)>>

remove_request_listener_steps(topic, listener) ==
    LET a == Arg(topic, listener, 0)
    IN  <<Instr(395, "acquire", "queryable_lock", 0, "", a),
          Instr(396, "remove", "queryable_map", 0, "ValueError", a),
          Instr(396, "release", "queryable_lock", 0, "", a)>>

\* as unregister_listener_steps, with the removals made in the order publish
\* listener, request listener, response listener
unregister_listener_steps_publish_first(topic, listener) ==
    LET wild == IsWildcard(topic)
        remove_resp_listener == wild \/ is_rpc_response(topic)
        remove_req_listener == wild \/ (~is_rpc_response(topic) /\ is_rpc_method(topic))
        remove_pub_listener == wild \/ (~is_rpc_response(topic) /\ ~is_rpc_method(topic))
    IN  (IF remove_pub_listener THEN remove_publish_listener_steps(topic, listener) ELSE <<>>)
            \o (IF remove_req_listener
                THEN remove_request_listener_steps(topic, listener) ELSE <<>>)
            \o (IF remove_resp_listener
                THEN remove_response_listener_steps(topic, listener) ELSE <<>>)
            \o <<Instr(382, "return", "none", 0, "", Arg(topic, listener, 0))>>

unregister_listener_steps(topic, listener) ==
    LET wild == IsWildcard(topic)
        remove_resp_listener == wild \/ is_rpc_response(topic)
        remove_req_listener == wild \/ (~is_rpc_response(topic) /\ is_rpc_method(topic))
        remove_pub_listener == wild \/ (~is_rpc_response(topic) /\ ~is_rpc_method(topic))
    IN  (IF remove_resp_listener THEN remove_response_listener_steps(topic, listener) ELSE <<>>)
            \o (IF remove_req_listener
                THEN remove_request_listener_steps(topic, listener) ELSE <<>>)
            \o (IF remove_pub_listener
                THEN remove_publish_listener_steps(topic, listener) ELSE <<>>)
            \o <<Instr(382, "return", "none", 0, "", Arg(topic, listener, 0))>>

\* send_response: the attachment built at line 182 is not looked at; the query is
\* popped with a default, and without it the method returns INTERNAL; what
\* query.reply raises is caught
send_response_steps(reqid) ==
    LET a == Arg(NoUri, "", reqid)
    IN  <<Instr(185, "take", "query_map", 1, "INTERNAL", a),
          Instr(194, "reply", "query", 0, "INTERNAL", a),
          Instr(197, "return", "status", 0, "", a)>>

\* as queryable_callback_steps, with the listener called before the query is
\* recorded
queryable_callback_steps_late(topic, listener, id) ==
    LET a == Arg(topic, listener, id)
    IN  <<Instr(264, "decode", "attachment_to_uattributes", 3, "INTERNAL", a),
          Instr(272, "decode", "to_upayload_format", 2, "INTERNAL", a),
          Instr(285, "on_receive", "listener", 0, "", a),
          Instr(284, "store", "query_map", 0, "", a),
          Instr(285, "return", "none", 0, "", a)>>

\* the closure of register_request_listener, called by Zenoh with a Query that
\* has an attachment (the id of the request in it) and a value
queryable_callback_steps(topic, listener, id) ==
    LET a == Arg(topic, listener, id)
    IN  <<Instr(264, "decode", "attachment_to_uattributes", 3, "INTERNAL", a),
          Instr(272, "decode", "to_upayload_format", 2, "INTERNAL", a),
          Instr(284, "store", "query_map", 0, "", a),
          Instr(285, "on_receive", "listener", 0, "", a),
          Instr(285, "return", "none", 0, "", a)>>

\* send_request with a non-empty payload: the response listener is looked up by
\* the serialized source and captured by zenoh_callback, the closure handed to
\* session.get; what session.get raises leaves the method
send_request_steps(source, id) ==
    LET a == Arg(source, "", id)
    IN  <<Instr(115, "encode", "uattributes_to_attachment", 2, "INVALID_ARGUMENT", a),
          Instr(128, "lookup", "rpc_callback_map", 1, "INTERNAL", a),
          Instr(169, "get", "session", 0, "ZError", a),
          Instr(178, "return", "status", 0, "", a)>>

\* as subscriber_callback_steps, with the listener called under subscriber_lock
subscriber_callback_steps_locked(topic, listener) ==
    LET a == Arg(topic, listener, 0)
    IN  <<Instr(217, "decode", "attachment_to_uattributes", 4, "INTERNAL", a),
          Instr(223, "decode", "to_upayload_format", 3, "INTERNAL", a),
          Instr(228, "acquire", "subscriber_lock", 0, "", a),
          Instr(228, "on_receive", "listener", 0, "", a),
          Instr(228, "release", "subscriber_lock", 0, "", a),
          Instr(228, "return", "none", 0, "", a)>>

\* the closure of register_publish_notification_listener, called by Zenoh with a
\* Sample that has an attachment
subscriber_callback_steps(topic, listener) ==
    LET a == Arg(topic, listener, 0)
    IN  <<Instr(217, "decode", "attachment_to_uattributes", 2, "INTERNAL", a),
          Instr(223, "decode", "to_upayload_format", 1, "INTERNAL", a),
          Instr(228, "on_receive", "listener", 0, "", a),
          Instr(228, "return", "none", 0, "", a)>>

\* as zenoh_callback_steps, with the listener looked up in rpc_callback_map when
\* the reply comes and the reply dropped where there is none
zenoh_callback_steps_lookup(topic, listener, id) ==
    LET a == Arg(topic, listener, id)
    IN  <<Instr(135, "decode", "reply.sample", 4, "INTERNAL", a),
          Instr(138, "decode", "to_upayload_format", 3, "INTERNAL", a),
          Instr(150, "decode", "attachment_to_uattributes", 2, "INTERNAL", a),
          Instr(159, "lookup", "rpc_callback_map", 1, "INTERNAL", a),
          Instr(159, "on_receive", "resp_callback", 0, "", a),
          Instr(159, "return", "none", 0, "", a)>>

\* as zenoh_callback_steps, with the listener registered for the topic when the
\* reply comes called, where there is one
zenoh_callback_steps_registered(topic, listener, id) ==
    LET a == Arg(topic,
                 IF Serialize(topic) \in DOMAIN rpc_callback_map
                 THEN rpc_callback_map[Serialize(topic)] ELSE listener,
                 id)
    IN  <<Instr(135, "decode", "reply.sample", 3, "INTERNAL", a),
          Instr(138, "decode", "to_upayload_format", 2, "INTERNAL", a),
          Instr(150, "decode", "attachment_to_uattributes", 1, "INTERNAL", a),
          Instr(159, "on_receive", "resp_callback", 0, "", a),
          Instr(159, "return", "none", 0, "", a)>>

\* zenoh_callback, the closure of send_request, called by Zenoh with a reply to
\* the query of request id: an error reply or a sample, which has an attachment;
\* listener is the resp_callback the closure captured
zenoh_callback_steps(topic, listener, id) ==
    LET a == Arg(topic, listener, id)
    IN  <<Instr(135, "decode", "reply.sample", 3, "INTERNAL", a),
          Instr(138, "decode", "to_upayload_format", 2, "INTERNAL", a),
          Instr(150, "decode", "attachment_to_uattributes", 1, "INTERNAL", a),
          Instr(159, "on_receive", "resp_callback", 0, "", a),
          Instr(159, "return", "none", 0, "", a)>>

\* A thread outside the adapter. Of a call it has finished it keeps what the call
\* returned or raised ("nothing": it has called nothing yet).
IdleThread ==
    [call |-> [op |-> "none", arg |-> Arg(NoUri, "", 0)],
     prog |-> <<>>, held |-> {}, status |-> "OK", calls |-> <<>>, ret |-> "nothing"]

Finished(ret) == [IdleThread EXCEPT !.ret = ret]

(***************************************************************************)
(* The state after construction, and the actions.                          *)
(***************************************************************************)
NoCall == [op |-> "none", arg |-> <<>>, ret |-> "None", calls |-> <<>>]

IdleCall ==
    [pc |-> "Idle", topic |-> NoUri, delivered |-> <<>>, stream |-> <<>>,
     futures |-> 0, result |-> NoResult]

Init ==
    /\ subscriber_map = EmptyMap
    /\ queryable_map = EmptyMap
    /\ rpc_callback_map = EmptyMap
    /\ query_map = EmptyMap
    /\ session = {}
    /\ last = NoCall
    /\ inv = IdleCall
    /\ threads = [t \in Threads |-> IdleThread]
    /\ closures = {}
    /\ replied = EmptyMap

RegisterListener(topic, listener) ==
    \E d \in DeclareOutcomes(topic) :
        \E r \in {register_listener(topic, listener, d[1], d[2])} :
            /\ subscriber_map' = r.sm
            /\ queryable_map' = r.qm
            /\ rpc_callback_map' = r.rm
            /\ session' = r.declared
            /\ last' = [op |-> "register_listener", arg |-> <<topic, listener>>,
                        ret |-> r.ret, calls |-> r.calls]
            /\ UNCHANGED <<query_map, inv, threads, closures, replied>>

UnregisterListener(topic, listener) ==
    \E r \in {unregister_listener(topic, listener)} :
        /\ subscriber_map' = r.sm
        /\ queryable_map' = r.qm
        /\ rpc_callback_map' = r.rm
        /\ last' = [op |-> "unregister_listener", arg |-> <<topic, listener>>,
                    ret |-> r.ret, calls |-> r.calls]
        /\ UNCHANGED <<query_map, session, inv, threads, closures, replied>>

Send(message) ==
    \E env \in SendEnvs(message) :
        \E r \in {send(message, env)} :
            /\ query_map' = r.qm
            /\ last' = [op |-> "send", arg |-> <<message>>, ret |-> r.ret, calls |-> r.calls]
            /\ UNCHANGED <<subscriber_map, queryable_map, rpc_callback_map, session, inv,
                           threads, closures, replied>>

QueryableCallback(query) ==
    \E listener \in session, dec \in DecodeOutcomes :
        \E r \in {queryable_callback(listener, query, dec)} :
            /\ query_map' = r.qm
            /\ last' = [op |-> "queryable_callback", arg |-> <<listener, query>>,
                        ret |-> r.ret, calls |-> r.calls]
            /\ UNCHANGED <<subscriber_map, queryable_map, rpc_callback_map, session, inv,
                           threads, closures, replied>>

InvokeMethod(topic, payload) ==
    /\ inv.pc # "Issued"
    /\ \E valid \in BOOLEAN, get \in {"ok", "raise"}, replies \in ReplyStreams :
           inv' = invoke_method_issue(topic, payload, valid, get, replies)
    /\ UNCHANGED <<subscriber_map, queryable_map, rpc_callback_map, query_map, session, last,
                   threads, closures, replied>>

InvokeReceive ==
    /\ inv.pc = "Issued"
    /\ inv' = invoke_method_receive(inv)
    /\ UNCHANGED <<subscriber_map, queryable_map, rpc_callback_map, query_map, session, last,
                   threads, closures, replied>>

(***************************************************************************)
(* The steps of a thread: each executes the statement the thread is at.    *)
(***************************************************************************)
Running(t) == threads[t].prog # <<>>

\* the statement thread t is at
At(t) == Head(threads[t].prog)

\* thread t enters a call of the adapter or a callback; calls will hold the
\* replies made and the values returned to the thread inside it
Enter(t, op, arg, prog) ==
    /\ ~Running(t)
    /\ threads' = [threads EXCEPT ![t] =
                       [call |-> [op |-> op, arg |-> arg], prog |-> prog, held |-> {},
                        status |-> "OK", calls |-> <<>>, ret |-> "pending"]]

Begin(t, op, arg, prog) ==
    /\ Enter(t, op, arg, prog)
    /\ UNCHANGED <<registries, session, last, inv, closures, replied>>

\* `with lock:` entered: the thread waits until no thread holds the lock
Acquire(t) ==
    /\ Running(t)
    /\ At(t).do = "acquire"
    /\ \A u \in Threads : At(t).obj \notin threads[u].held
    /\ threads' = [threads EXCEPT ![t].prog = Tail(@), ![t].held = @ \cup {At(t).obj}]
    /\ UNCHANGED <<registries, session, last, inv, closures, replied>>

\* `with lock:` left
Release(t) ==
    /\ Running(t)
    /\ At(t).do = "release"
    /\ threads' = [threads EXCEPT ![t].prog = Tail(@), ![t].held = @ \ {At(t).obj}]
    /\ UNCHANGED <<registries, session, last, inv, closures, replied>>

\* the Query of a request id on a topic
QueryOf(arg) ==
    [key_expr |-> to_zenoh_key_string(arg.topic), attachment |-> <<arg.id>>, value |-> "ok"]

\* as Store, with a handle stored for a key that has none and the handle of a key
\* that has one kept
Store_keep(t) ==
    /\ Running(t)
    /\ At(t).do = "store"
    /\ LET obj == At(t).obj
           arg == At(t).arg
           pair == <<Serialize(arg.topic), arg.listener>>
       IN  /\ rpc_callback_map' =
                  IF obj = "rpc_callback_map"
                  THEN Put(rpc_callback_map, Serialize(arg.topic), arg.listener)
                  ELSE rpc_callback_map
           /\ queryable_map' =
                  IF obj = "queryable_map" /\ pair \notin DOMAIN queryable_map
                  THEN Put(queryable_map, pair,
                           QueryableHandle(arg.topic, arg.listener, arg.id))
                  ELSE queryable_map
           /\ subscriber_map' =
                  IF obj = "subscriber_map" /\ pair \notin DOMAIN subscriber_map
                  THEN Put(subscriber_map, pair,
                           SubscriberHandle(arg.topic, arg.listener, arg.id))
                  ELSE subscriber_map
           /\ query_map' =
                  IF obj = "query_map"
                  THEN Put(query_map, SerializeId(arg.id), QueryOf(arg))
                  ELSE query_map
    /\ threads' = [threads EXCEPT ![t].prog = Tail(@)]
    /\ UNCHANGED <<session, last, inv, closures, replied>>

\* registry[key] = value
Store(t) ==
    /\ Running(t)
    /\ At(t).do = "store"
    /\ LET obj == At(t).obj
           arg == At(t).arg
           pair == <<Serialize(arg.topic), arg.listener>>
       IN  /\ rpc_callback_map' =
                  IF obj = "rpc_callback_map"
                  THEN Put(rpc_callback_map, Serialize(arg.topic), arg.listener)
                  ELSE rpc_callback_map
           /\ queryable_map' =
                  IF obj = "queryable_map"
                  THEN Put(queryable_map, pair,
                           QueryableHandle(arg.topic, arg.listener, arg.id))
                  ELSE queryable_map
           /\ subscriber_map' =
                  IF obj = "subscriber_map"
                  THEN Put(subscriber_map, pair,
                           SubscriberHandle(arg.topic, arg.listener, arg.id))
                  ELSE subscriber_map
           /\ query_map' =
                  IF obj = "query_map"
                  THEN Put(query_map, SerializeId(arg.id), QueryOf(arg))
                  ELSE query_map
    /\ threads' = [threads EXCEPT ![t].prog = Tail(@)]
    /\ UNCHANGED <<session, last, inv, closures, replied>>

\* the key a statement reads or writes in the registry it names
KeyOf(instr) ==
    IF instr.obj = "rpc_callback_map" THEN Serialize(instr.arg.topic)
    ELSE IF instr.obj = "query_map" THEN SerializeId(instr.arg.id)
    ELSE <<Serialize(instr.arg.topic), instr.arg.listener>>

RegistryOf(instr) ==
    IF instr.obj = "rpc_callback_map" THEN rpc_callback_map
    ELSE IF instr.obj = "query_map" THEN query_map
    ELSE IF instr.obj = "queryable_map" THEN queryable_map
    ELSE subscriber_map

\* as Remove, with the queries of the session's requests dropped along with a
\* request listener
Remove_retract(t) ==
    /\ Running(t)
    /\ At(t).do = "remove"
    /\ LET obj == At(t).obj
           key == KeyOf(At(t))
           present == key \in DOMAIN RegistryOf(At(t))
       IN  /\ rpc_callback_map' =
                  IF obj = "rpc_callback_map" THEN Pop(rpc_callback_map, key)
                  ELSE rpc_callback_map
           /\ queryable_map' =
                  IF obj = "queryable_map" THEN Pop(queryable_map, key) ELSE queryable_map
           /\ subscriber_map' =
                  IF obj = "subscriber_map" THEN Pop(subscriber_map, key) ELSE subscriber_map
           /\ query_map' =
                  IF obj = "queryable_map" /\ present THEN EmptyMap ELSE query_map
           /\ threads' =
                  IF present
                  THEN [threads EXCEPT ![t].prog = Tail(@)]
                  ELSE [threads EXCEPT ![t] = Finished(At(t).fail)]
    /\ UNCHANGED <<session, last, inv, closures, replied>>

\* `if registry.pop(key, None) is None: raise ValueError(...)`: the exception leaves
\* the `with` (the lock is released) and the call
Remove(t) ==
    /\ Running(t)
    /\ At(t).do = "remove"
    /\ LET obj == At(t).obj
           key == KeyOf(At(t))
           present == key \in DOMAIN RegistryOf(At(t))
       IN  /\ rpc_callback_map' =
                  IF obj = "rpc_callback_map" THEN Pop(rpc_callback_map, key)
                  ELSE rpc_callback_map
           /\ queryable_map' =
                  IF obj = "queryable_map" THEN Pop(queryable_map, key) ELSE queryable_map
           /\ subscriber_map' =
                  IF obj = "subscriber_map" THEN Pop(subscriber_map, key) ELSE subscriber_map
           /\ threads' =
                  IF present
                  THEN [threads EXCEPT ![t].prog = Tail(@)]
                  ELSE [threads EXCEPT ![t] = Finished(At(t).fail)]
    /\ UNCHANGED <<query_map, session, last, inv, closures, replied>>

\* the statements left when the one the thread is at fails
AfterFailure(t) == SubSeq(threads[t].prog, At(t).skip + 2, Len(threads[t].prog))

\* a closure the session holds: the listener it captured and, of the closure of a
\* Request, the id of the request (0: the closure of a subscriber)
Closure(kind, listener, id) == [kind |-> kind, listener |-> listener, id |-> id]

\* the registry a declaration's handle is stored in
HandleRegistry(instr) ==
    IF instr.obj = "declare_queryable" THEN "queryable_map" ELSE "subscriber_map"

\* the statements of the threads that store a handle already granted for the
\* key of a declaration (no declaration is before them in what the thread has
\* left to do)
HeldHandles(instr) ==
    UNION {{threads[u].prog[i].arg.id :
               i \in {j \in 1..Len(threads[u].prog) :
                         /\ threads[u].prog[j].do = "store"
                         /\ threads[u].prog[j].obj = HandleRegistry(instr)
                         /\ threads[u].prog[j].arg.topic = instr.arg.topic
                         /\ threads[u].prog[j].arg.listener = instr.arg.listener
                         /\ \A k \in 1..(j - 1) : threads[u].prog[k].do # "declare"}} :
           u \in Threads}

\* the handles of a declaration's key that are referenced: the one stored and
\* those threads hold
LiveHandles(instr) ==
    LET key == <<Serialize(instr.arg.topic), instr.arg.listener>>
        map == IF instr.obj = "declare_queryable" THEN queryable_map ELSE subscriber_map
    IN  (IF key \in DOMAIN map THEN {map[key].serial} ELSE {}) \cup HeldHandles(instr)

\* a declaration returns a new object: one that is none of the live ones
FreshSerial(instr) ==
    CHOOSE n \in 0..Cardinality(LiveHandles(instr)) :
        /\ n \notin LiveHandles(instr)
        /\ \A m \in 0..(n - 1) : m \in LiveHandles(instr)

\* what a thread has left to do after a declaration was granted: the statements
\* that depend on the grant (those a refusal skips) have the handle
Granted(prog, skip, serial) ==
    [i \in 1..(Len(prog) - 1) |->
        IF i <= skip THEN [prog[i + 1] EXCEPT !.arg.id = serial] ELSE prog[i + 1]]

\* session.declare_queryable / session.declare_subscriber with the closure of the
\* listener: granted, the session holds the closure from then on
Declare(t) ==
    /\ Running(t)
    /\ At(t).do = "declare"
    /\ \E outcome \in IF At(t).obj = "declare_queryable"
                       THEN DeclareQueryableOutcomes ELSE DeclareSubscriberOutcomes :
           IF outcome = "handle"
           THEN /\ session' = IF At(t).obj = "declare_queryable"
                              THEN session \cup {At(t).arg.listener} ELSE session
                /\ closures' = IF At(t).obj = "declare_subscriber"
                               THEN closures \cup {Closure("subscriber", At(t).arg.listener, 0)}
                               ELSE closures
                /\ threads' = [threads EXCEPT
                                  ![t].prog = Granted(@, At(t).skip, FreshSerial(At(t))),
                                  ![t].calls = Append(@, Call(At(t).obj, outcome))]
           ELSE /\ threads' = [threads EXCEPT ![t].prog = AfterFailure(t),
                                              ![t].status = At(t).fail,
                                              ![t].calls = Append(@, Call(At(t).obj, outcome))]
                /\ UNCHANGED <<session, closures>>
    /\ UNCHANGED <<registries, last, inv, replied>>

\* what the call returns: a UStatus of the code its statements left, or (obj
\* "none") None where no statement failed
Returned(t) ==
    IF At(t).obj = "none" /\ threads[t].status = "OK" THEN "None" ELSE threads[t].status

\* The call returns. A call that has statements of the thread after it (a call
\* made by a listener from inside on_receive, which returns to the listener; the
\* first of two calls a thread makes in a row) hands its value to the thread,
\* and no statement has failed of what the thread goes on with.
Return(t) ==
    /\ Running(t)
    /\ At(t).do = "return"
    /\ threads' =
           IF Tail(threads[t].prog) = <<>>
           THEN [threads EXCEPT ![t] = Finished(Returned(t))]
           ELSE [threads EXCEPT ![t].prog = Tail(@), ![t].status = "OK",
                                ![t].calls = Append(@, Call("return", Returned(t)))]
    /\ UNCHANGED <<registries, session, last, inv, closures, replied>>

\* a collaborator that decodes (ZenohUtils.attachment_to_uattributes,
\* ZenohUtils.to_upayload_format): it yields a value, or what counts as a failure
Decode(t) ==
    /\ Running(t)
    /\ At(t).do = "decode"
    /\ \E outcome \in {"ok", "fail"} :
           threads' =
               IF outcome = "ok"
               THEN [threads EXCEPT ![t].prog = Tail(@)]
               ELSE [threads EXCEPT ![t].prog = AfterFailure(t), ![t].status = At(t).fail]
    /\ UNCHANGED <<registries, session, last, inv, closures, replied>>

\* as Take, with the query read and left in the registry
Take_get(t) ==
    /\ Running(t)
    /\ At(t).do = "take"
    /\ threads' =
           IF KeyOf(At(t)) \in DOMAIN query_map
           THEN [threads EXCEPT ![t].prog = Tail(@)]
           ELSE [threads EXCEPT ![t].prog = AfterFailure(t), ![t].status = At(t).fail]
    /\ UNCHANGED <<registries, session, last, inv, closures, replied>>

\* query = self.query_map.pop(key, None); `if not query: return UStatus(INTERNAL)`
Take(t) ==
    /\ Running(t)
    /\ At(t).do = "take"
    /\ query_map' = Pop(query_map, KeyOf(At(t)))
    /\ threads' =
           IF KeyOf(At(t)) \in DOMAIN query_map
           THEN [threads EXCEPT ![t].prog = Tail(@)]
           ELSE [threads EXCEPT ![t].prog = AfterFailure(t), ![t].status = At(t).fail]
    /\ UNCHANGED <<subscriber_map, queryable_map, rpc_callback_map, session, last, inv,
                   closures, replied>>

\* query.reply(reply) on the Query the thread popped: it returns, or raises (caught)
Reply(t) ==
    /\ Running(t)
    /\ At(t).do = "reply"
    /\ replied' = Put(replied, At(t).arg.id,
                      IF At(t).arg.id \in DOMAIN replied THEN replied[At(t).arg.id] + 1 ELSE 1)
    /\ \E outcome \in {"ok", "raise"} :
           threads' =
               [threads EXCEPT ![t].prog = Tail(@),
                               ![t].status = IF outcome = "ok" THEN @ ELSE At(t).fail,
                               ![t].calls = Append(@, Call("reply", outcome))]
    /\ UNCHANGED <<registries, session, last, inv, closures>>

\* ZenohUtils.uattributes_to_attachment(attributes): an attachment, or None
Encode(t) ==
    /\ Running(t)
    /\ At(t).do = "encode"
    /\ \E outcome \in {"ok", "fail"} :
           threads' =
               IF outcome = "ok"
               THEN [threads EXCEPT ![t].prog = Tail(@)]
               ELSE [threads EXCEPT ![t].prog = AfterFailure(t), ![t].status = At(t).fail]
    /\ UNCHANGED <<registries, session, last, inv, closures, replied>>

\* resp_callback = self.rpc_callback_map.get(key); `if resp_callback is None:
\* return UStatus(INTERNAL)`. The statements after it work on the listener found.
Lookup(t) ==
    /\ Running(t)
    /\ At(t).do = "lookup"
    /\ threads' =
           IF KeyOf(At(t)) \in DOMAIN rpc_callback_map
           THEN [threads EXCEPT ![t].prog =
                    [i \in 1..(Len(@) - 1) |->
                        [@[i + 1] EXCEPT !.arg.listener = rpc_callback_map[KeyOf(At(t))]]]]
           ELSE [threads EXCEPT ![t].prog = AfterFailure(t), ![t].status = At(t).fail]
    /\ UNCHANGED <<registries, session, last, inv, closures, replied>>

\* session.get(zenoh_key, zenoh_callback, ...), outside any try: the session
\* holds the closure from then on, or what it raises leaves the call
Get(t) ==
    /\ Running(t)
    /\ At(t).do = "get"
    /\ \E outcome \in {"ok", "raise"} :
           IF outcome = "ok"
           THEN /\ closures' = closures \cup {Closure("reply", At(t).arg.listener, At(t).arg.id)}
                /\ threads' = [threads EXCEPT ![t].prog = Tail(@)]
           ELSE /\ closures' = closures
                /\ threads' = [threads EXCEPT ![t] = Finished(At(t).fail)]
    /\ UNCHANGED <<registries, session, last, inv, replied>>

\* listener.on_receive(msg) returns
OnReceive(t) ==
    /\ Running(t)
    /\ At(t).do = "on_receive"
    /\ threads' = [threads EXCEPT ![t].prog = Tail(@)]
    /\ UNCHANGED <<registries, session, last, inv, closures, replied>>

\* the calls of the adapter the listener has made from inside on_receive
ListenerCalls(t) ==
    Cardinality({i \in 1..Len(threads[t].calls) : threads[t].calls[i][1] = "return"})

\* inside on_receive, the listener calls the adapter on the thread of the callback
ListenerCall(t, prog) ==
    /\ Running(t)
    /\ At(t).do = "on_receive"
    /\ ListenerCalls(t) < MaxListenerCalls
    /\ threads' = [threads EXCEPT ![t].prog = prog \o @]
    /\ UNCHANGED <<registries, session, last, inv, closures, replied>>

(***************************************************************************)
(* Threads that each register a pair and then unregister it, the pairs of  *)
(* different threads being different.                                      *)
(***************************************************************************)
PairOf(t) == <<threads[t].call.arg.topic, threads[t].call.arg.listener>>

\* a thread that has called nothing yet runs register_listener(topic, listener)
\* and then unregister_listener(topic, listener), with a pair no other thread has
RaceBegin(t, topic, listener) ==
    /\ threads[t].ret = "nothing"
    /\ \A u \in Threads \ {t} : Running(u) => PairOf(u) # <<topic, listener>>
    /\ Begin(t, "register_listener, unregister_listener", Arg(topic, listener, 0),
             register_listener_steps(topic, listener)
                 \o unregister_listener_steps(topic, listener))

NextRace ==
    \/ \E t \in Threads, topic \in Topics, listener \in Listeners :
           RaceBegin(t, topic, listener)
    \/ \E t \in Threads : Acquire(t)
    \/ \E t \in Threads : Release(t)
    \/ \E t \in Threads : Store(t)
    \/ \E t \in Threads : Remove(t)
    \/ \E t \in Threads : Declare(t)
    \/ \E t \in Threads : Return(t)

SpecRace == Init /\ [][NextRace]_vars

(***************************************************************************)
(* Requests served concurrently: a request listener is registered, Zenoh   *)
(* hands each request (one Query per request id) to the closure on one of  *)
(* its threads, and Responses are sent from application threads and by the *)
(* listener from inside on_receive.                                        *)
(***************************************************************************)
RespondRegister(t, listener) ==
    /\ listener \in Listeners
    /\ Begin(t, "register_listener", Arg(RequestTopic, listener, 0),
             register_listener_steps(RequestTopic, listener))

\* Zenoh calls the queryable closure of a listener with the Query of a request
QueryableCallbackBegin(t, listener, id) ==
    /\ listener \in session
    /\ id \notin DOMAIN replied
    /\ replied' = Put(replied, id, 0)
    /\ Enter(t, "queryable_callback", Arg(RequestTopic, listener, id),
             queryable_callback_steps(RequestTopic, listener, id))
    /\ UNCHANGED <<registries, session, last, inv, closures>>

\* send(message) of a Response with the request id
SendResponse(t, reqid) ==
    /\ reqid \in ReqIds
    /\ Begin(t, "send_response", Arg(NoUri, "", reqid), send_response_steps(reqid))

\* the request listener sends the Response of the request it was handed
ListenerSendsResponse(t) ==
    /\ threads[t].call.op = "queryable_callback"
    /\ ListenerCall(t, send_response_steps(threads[t].call.arg.id))

NextRespond ==
    \/ \E t \in Threads : RespondRegister(t, "l1")
    \/ \E t \in Threads, listener \in Listeners, id \in ReqIds :
           QueryableCallbackBegin(t, listener, id)
    \/ \E t \in Threads, reqid \in ReqIds : SendResponse(t, reqid)
    \/ \E t \in Threads : ListenerSendsResponse(t)
    \/ \E t \in Threads : Acquire(t)
    \/ \E t \in Threads : Release(t)
    \/ \E t \in Threads : Store(t)
    \/ \E t \in Threads : Declare(t)
    \/ \E t \in Threads : Decode(t)
    \/ \E t \in Threads : Take(t)
    \/ \E t \in Threads : Reply(t)
    \/ \E t \in Threads : OnReceive(t)
    \/ \E t \in Threads : Return(t)

SpecRespond == Init /\ [][NextRespond]_vars

(***************************************************************************)
(* Listeners called back: listeners are registered and unregistered,       *)
(* Requests are sent, Zenoh calls the three kinds of closure on its        *)
(* threads, and the listener calls the adapter from inside on_receive.     *)
(***************************************************************************)
CallbackTopics == {PublishTopic, RequestTopic, ResponseTopic}

\* the thread of the application, which calls the adapter, and the threads of
\* the Zenoh session, which run the closures the adapter handed to it
ApplicationThread == 1

SessionThreads == Threads \ {ApplicationThread}

\* the request ids of the Requests sent and delivered here
CallbackReqIds == {1}

CallbacksRegister(t, topic) ==
    /\ topic \in CallbackTopics
    /\ Begin(t, "register_listener", Arg(topic, "l1", 0),
             register_listener_steps(topic, "l1"))

CallbacksUnregister(t, topic) ==
    /\ topic \in CallbackTopics
    /\ Begin(t, "unregister_listener", Arg(topic, "l1", 0),
             unregister_listener_steps(topic, "l1"))

\* send(message) of a Request with a non-empty payload, whose source is the
\* response topic
SendRequest(t, id) ==
    /\ id \in ReqIds
    /\ Begin(t, "send_request", Arg(ResponseTopic, "", id),
             send_request_steps(ResponseTopic, id))

\* Zenoh calls the subscriber closure of a listener with a Sample
SubscriberCallbackBegin(t, listener) ==
    /\ Closure("subscriber", listener, 0) \in closures
    /\ Begin(t, "subscriber_callback", Arg(PublishTopic, listener, 0),
             subscriber_callback_steps(PublishTopic, listener))

\* Zenoh calls the closure of a Request sent with a reply to it
ZenohCallbackBegin(t, listener, id) ==
    /\ Closure("reply", listener, id) \in closures
    /\ Begin(t, "zenoh_callback", Arg(ResponseTopic, listener, id),
             zenoh_callback_steps(ResponseTopic, listener, id))

\* inside on_receive the listener registers itself again for the topic of the
\* callback
ListenerRegisters(t) ==
    /\ threads[t].call.arg.topic \in CallbackTopics
    /\ ListenerCall(t, register_listener_steps(threads[t].call.arg.topic,
                                               threads[t].call.arg.listener))

\* inside on_receive the listener unregisters itself from the topic of the
\* callback
ListenerUnregisters(t) ==
    /\ threads[t].call.arg.topic \in CallbackTopics
    /\ ListenerCall(t, unregister_listener_steps(threads[t].call.arg.topic,
                                                 threads[t].call.arg.listener))

NextCallbacks ==
    \/ \E topic \in CallbackTopics : CallbacksRegister(ApplicationThread, topic)
    \/ \E topic \in CallbackTopics : CallbacksUnregister(ApplicationThread, topic)
    \/ \E id \in CallbackReqIds : SendRequest(ApplicationThread, id)
    \/ \E t \in SessionThreads, listener \in Listeners : SubscriberCallbackBegin(t, listener)
    \/ \E t \in SessionThreads, listener \in Listeners, id \in CallbackReqIds :
           QueryableCallbackBegin(t, listener, id)
    \/ \E t \in SessionThreads, listener \in Listeners, id \in CallbackReqIds :
           ZenohCallbackBegin(t, listener, id)
    \/ \E t \in Threads : ListenerRegisters(t)
    \/ \E t \in Threads : ListenerUnregisters(t)
    \/ \E t \in Threads : ListenerSendsResponse(t)
    \/ \E t \in Threads : Acquire(t)
    \/ \E t \in Threads : Release(t)
    \/ \E t \in Threads : Store(t)
    \/ \E t \in Threads : Remove(t)
    \/ \E t \in Threads : Declare(t)
    \/ \E t \in Threads : Decode(t)
    \/ \E t \in Threads : Encode(t)
    \/ \E t \in Threads : Lookup(t)
    \/ \E t \in Threads : Get(t)
    \/ \E t \in Threads : Take(t)
    \/ \E t \in Threads : Reply(t)
    \/ \E t \in Threads : OnReceive(t)
    \/ \E t \in Threads : Return(t)

SpecCallbacks == Init /\ [][NextCallbacks]_vars

(***************************************************************************)
(* The application registers a pair twice and then unregisters it twice,   *)
(* one call after the other; it goes on with another pair, what the        *)
(* calls before left in the registries being there.                        *)
(***************************************************************************)
OverwriteTopics == {WildcardTopic, PublishTopic, RequestTopic}

OverwriteBegin(t, topic, listener) ==
    /\ topic \in OverwriteTopics
    /\ Begin(t, "register_listener twice, unregister_listener twice",
             Arg(topic, listener, 0),
             register_listener_steps(topic, listener)
                 \o register_listener_steps(topic, listener)
                 \o unregister_listener_steps(topic, listener)
                 \o unregister_listener_steps(topic, listener))

NextOverwrite ==
    \/ \E topic \in OverwriteTopics, listener \in Listeners :
           OverwriteBegin(ApplicationThread, topic, listener)
    \/ \E t \in Threads : Acquire(t)
    \/ \E t \in Threads : Release(t)
    \/ \E t \in Threads : Store(t)
    \/ \E t \in Threads : Remove(t)
    \/ \E t \in Threads : Declare(t)
    \/ \E t \in Threads : Return(t)

SpecOverwrite == Init /\ [][NextOverwrite]_vars

(***************************************************************************)
(* Response listeners and the Requests bound to them: the application      *)
(* registers and unregisters listeners for the response topic and sends    *)
(* Requests with it as source, each with an id of its own; Zenoh calls the *)
(* closure of a Request with a reply on one of its threads.                *)
(***************************************************************************)
BindRegister(t, listener) ==
    /\ listener \in Listeners
    /\ Begin(t, "register_listener", Arg(ResponseTopic, listener, 0),
             register_listener_steps(ResponseTopic, listener))

BindUnregister(t, listener) ==
    /\ listener \in Listeners
    /\ Begin(t, "unregister_listener", Arg(ResponseTopic, listener, 0),
             unregister_listener_steps(ResponseTopic, listener))

SendNewRequest(t, id) ==
    /\ \A closure \in closures : closure.id # id
    /\ SendRequest(t, id)

NextBind ==
    \/ \E listener \in Listeners : BindRegister(ApplicationThread, listener)
    \/ \E listener \in Listeners : BindUnregister(ApplicationThread, listener)
    \/ \E id \in ReqIds : SendNewRequest(ApplicationThread, id)
    \/ \E t \in SessionThreads, listener \in Listeners, id \in ReqIds :
           ZenohCallbackBegin(t, listener, id)
    \/ \E t \in Threads : Acquire(t)
    \/ \E t \in Threads : Release(t)
    \/ \E t \in Threads : Store(t)
    \/ \E t \in Threads : Remove(t)
    \/ \E t \in Threads : Encode(t)
    \/ \E t \in Threads : Lookup(t)
    \/ \E t \in Threads : Get(t)
    \/ \E t \in Threads : Decode(t)
    \/ \E t \in Threads : OnReceive(t)
    \/ \E t \in Threads : Return(t)

SpecBind == Init /\ [][NextBind]_vars

(***************************************************************************)
(* Listeners unregistered while requests are pending: the application      *)
(* registers and unregisters a listener for topics of every shape and      *)
(* sends Responses; Zenoh hands a request to the closure of the listener   *)
(* on one of its threads.                                                  *)
(***************************************************************************)
RetractRegister(t, topic) ==
    /\ topic \in Topics
    /\ Begin(t, "register_listener", Arg(topic, "l1", 0),
             register_listener_steps(topic, "l1"))

RetractUnregister(t, topic) ==
    /\ topic \in Topics
    /\ Begin(t, "unregister_listener", Arg(topic, "l1", 0),
             unregister_listener_steps(topic, "l1"))

NextRetract ==
    \/ \E topic \in Topics : RetractRegister(ApplicationThread, topic)
    \/ \E topic \in Topics : RetractUnregister(ApplicationThread, topic)
    \/ \E id \in CallbackReqIds : SendResponse(ApplicationThread, id)
    \/ \E t \in SessionThreads, listener \in Listeners, id \in CallbackReqIds :
           QueryableCallbackBegin(t, listener, id)
    \/ \E t \in Threads : Acquire(t)
    \/ \E t \in Threads : Release(t)
    \/ \E t \in Threads : Store(t)
    \/ \E t \in Threads : Remove(t)
    \/ \E t \in Threads : Declare(t)
    \/ \E t \in Threads : Decode(t)
    \/ \E t \in Threads : Take(t)
    \/ \E t \in Threads : Reply(t)
    \/ \E t \in Threads : OnReceive(t)
    \/ \E t \in Threads : Return(t)

SpecRetract == Init /\ [][NextRetract]_vars

\* the topics whose registrations the send paths and the queryable callback read
SendTopics == {RequestTopic, ResponseTopic}

\* Registration and removal of listeners.
Next ==
    \/ \E topic \in Topics, listener \in Listeners : RegisterListener(topic, listener)
    \/ \E topic \in Topics, listener \in Listeners : UnregisterListener(topic, listener)

Spec == Init /\ [][Next]_vars

\* The send paths, fed by the queryable callback, with the registrations they read.
NextSend ==
    \/ \E topic \in SendTopics, listener \in Listeners : RegisterListener(topic, listener)
    \/ \E topic \in SendTopics, listener \in Listeners : UnregisterListener(topic, listener)
    \/ \E message \in Messages : Send(message)
    \/ \E query \in Queries : QueryableCallback(query)

SpecSend == Init /\ [][NextSend]_vars

\* invoke_method, which reads and writes none of the registries.
NextInvoke ==
    \/ \E topic \in InvokeTopics, payload \in Payloads : InvokeMethod(topic, payload)
    \/ InvokeReceive

SpecInvoke == Init /\ [][NextInvoke]_vars

(***************************************************************************)
(* Properties of registration and removal (under Spec).                    *)
(***************************************************************************)
\* the entries a successful register_listener(topic, listener) leaves
HoldsResponse(rm, topic, listener) ==
    Serialize(topic) \in DOMAIN rm /\ rm[Serialize(topic)] = listener

HoldsPair(m, topic, listener) == <<Serialize(topic), listener>> \in DOMAIN m

\* no registry holds an entry for (topic, listener) / topic
NoEntry(sm, qm, rm, topic, listener) ==
    /\ ~HoldsPair(sm, topic, listener)
    /\ ~HoldsPair(qm, topic, listener)
    /\ Serialize(topic) \notin DOMAIN rm

\* every declaration the call made was granted a handle
AllGranted(calls) == \A i \in 1..Len(calls) : calls[i][2] = "handle"

IsCall(call, op, topic, listener) == call.op = op /\ call.arg = <<topic, listener>>

\* C1: register_listener(t, l) immediately followed by unregister_listener(t, l)
\* (the declarations of the registration being granted): both calls return an OK
\* status, and afterwards no registry holds an entry for (t, l) / t.
C1_RegisterUnregisterBothOk ==
    [][\A topic \in Topics, listener \in Listeners :
          (/\ IsCall(last, "register_listener", topic, listener)
           /\ AllGranted(last.calls)
           /\ IsCall(last', "unregister_listener", topic, listener))
          => (/\ last.ret = "OK"
              /\ last'.ret = "OK"
              /\ NoEntry(subscriber_map', queryable_map', rpc_callback_map',
                         topic, listener))]_vars

\* a registration of the exact pair (topic, listener) is in effect: every registry
\* the topic's shape targets holds the entry of the pair
InEffect(topic, listener) ==
    /\ (IsWildcard(topic) \/ is_rpc_response(topic))
           => HoldsResponse(rpc_callback_map, topic, listener)
    /\ (IsWildcard(topic) \/ (~is_rpc_response(topic) /\ is_rpc_method(topic)))
           => HoldsPair(queryable_map, topic, listener)
    /\ (IsWildcard(topic) \/ (~is_rpc_response(topic) /\ ~is_rpc_method(topic)))
           => HoldsPair(subscriber_map, topic, listener)

\* C2: unregister_listener(t, l) called while no registration of the exact pair
\* (t, l) is in effect raises, for every topic shape.
C2_UnregisterAbsentPairRaises ==
    [][\A topic \in Topics, listener \in Listeners :
          (/\ ~InEffect(topic, listener)
           /\ IsCall(last', "unregister_listener", topic, listener))
          => last'.ret = "ValueError"]_vars

\* C7: registering the wildcard topic with l, every declaration granted, returns OK
\* and leaves l in all three registries; unregistering the wildcard topic with l
\* while all three hold it returns without raising and leaves none of them with
\* an entry for it.
C7_WildcardAllThree ==
    [][\A listener \in Listeners :
          /\ (/\ IsCall(last', "register_listener", WildcardTopic, listener)
              /\ AllGranted(last'.calls))
             => (/\ last'.ret = "OK"
                 /\ HoldsResponse(rpc_callback_map', WildcardTopic, listener)
                 /\ HoldsPair(queryable_map', WildcardTopic, listener)
                 /\ HoldsPair(subscriber_map', WildcardTopic, listener))
          /\ (/\ InEffect(WildcardTopic, listener)
              /\ IsCall(last', "unregister_listener", WildcardTopic, listener))
             => (/\ last'.ret = "None"
                 /\ NoEntry(subscriber_map', queryable_map', rpc_callback_map',
                            WildcardTopic, listener))]_vars

\* C7's case: the wildcard topic was unregistered without raising (so all three
\* registries held it), while the other listener's wildcard entries stay
C7_Witness ==
    \E listener \in Listeners, other \in Listeners :
        /\ other # listener
        /\ IsCall(last, "unregister_listener", WildcardTopic, listener)
        /\ last.ret = "None"
        /\ NoEntry(subscriber_map, queryable_map, rpc_callback_map, WildcardTopic, listener)
        /\ HoldsPair(queryable_map, WildcardTopic, other)
        /\ HoldsPair(subscriber_map, WildcardTopic, other)

\* C8: register_listener on the wildcard topic returns OK exactly when every
\* sub-registration succeeded, and INTERNAL when at least one failed.
C8_WildcardAllOrReported ==
    \A listener \in Listeners :
        IsCall(last, "register_listener", WildcardTopic, listener)
        => /\ last.ret \in {"OK", "INTERNAL"}
           /\ last.ret = "OK" <=> AllGranted(last.calls)

\* C8's case: the queryable declaration was granted and the subscriber declaration
\* failed; the caller sees INTERNAL
C8_Witness ==
    \E listener \in Listeners :
        /\ IsCall(last, "register_listener", WildcardTopic, listener)
        /\ last.calls = <<Call("declare_queryable", "handle"), Call("declare_subscriber", "raise")>>
        /\ last.ret = "INTERNAL"
        /\ HoldsPair(queryable_map, WildcardTopic, listener)

(***************************************************************************)
(* Properties of the send paths (under SpecSend).                          *)
(***************************************************************************)
\* the call made the collaborator call fn
Made(calls, fn) == \E i \in 1..Len(calls) : calls[i][1] = fn

IsSend(call, type) == call.op = "send" /\ call.arg[1].attributes.type = type

\* C3: a send of a Response whose request id has no entry in the pending-query
\* registry returns INTERNAL, makes no reply call and leaves the registry as it was.
C3_UntrackedResponseIsInternal ==
    [][(/\ IsSend(last', "RESPONSE")
        /\ SerializeId(last'.arg[1].attributes.reqid) \notin DOMAIN query_map)
       => (/\ last'.ret = "INTERNAL"
           /\ ~Made(last'.calls, "reply")
           /\ query_map' = query_map)]_vars

\* C3's case: a Response for an id that is not tracked was refused, while the
\* query of another id stays tracked
C3_Witness ==
    /\ IsSend(last, "RESPONSE")
    /\ last.ret = "INTERNAL"
    /\ ~Made(last.calls, "reply")
    /\ SerializeId(last.arg[1].attributes.reqid) \notin DOMAIN query_map
    /\ query_map # EmptyMap

\* a response listener is registered for the source topic of the attributes
SourceRegistered(rm, attributes) ==
    \E listener \in Listeners : HoldsResponse(rm, attributes.source, listener)

\* C4 as claimed: a send of a Request with non-empty payload whose source has no
\* response listener returns INTERNAL and issues no query; a query is issued only
\* when a response listener is registered for the source.
C4_UnregisteredSourceIsInternal ==
    [][IsSend(last', "REQUEST")
       => /\ (last'.arg[1].payload.value # "" /\ ~SourceRegistered(rpc_callback_map, last'.arg[1].attributes))
             => (last'.ret = "INTERNAL" /\ ~Made(last'.calls, "get"))
          /\ Made(last'.calls, "get") => SourceRegistered(rpc_callback_map, last'.arg[1].attributes)]_vars

\* the attributes of the message did not encode to an attachment
EncodingFailed(calls) == Len(calls) > 0 /\ calls[1] = Call("uattributes_to_attachment", "fail")

\* C4, amended: such a send issues no query, and returns INTERNAL when the
\* attributes encode to an attachment and INVALID_ARGUMENT when they do not; a
\* query is issued only when a response listener is registered for the source.
C4_UnregisteredSourceNoQuery ==
    [][IsSend(last', "REQUEST")
       => /\ (last'.arg[1].payload.value # "" /\ ~SourceRegistered(rpc_callback_map, last'.arg[1].attributes))
             => /\ ~Made(last'.calls, "get")
                /\ last'.ret = IF EncodingFailed(last'.calls)
                               THEN "INVALID_ARGUMENT" ELSE "INTERNAL"
          /\ Made(last'.calls, "get") => SourceRegistered(rpc_callback_map, last'.arg[1].attributes)]_vars

\* C4's case: a Request whose source has no response listener was refused with
\* INTERNAL and without a query, while another topic's response listener is registered
C4_Witness ==
    /\ IsSend(last, "REQUEST")
    /\ last.arg[1].payload.value # ""
    /\ ~SourceRegistered(rpc_callback_map, last.arg[1].attributes)
    /\ rpc_callback_map # EmptyMap
    /\ last.ret = "INTERNAL"
    /\ last.calls = <<Call("uattributes_to_attachment", "ok")>>

\* C9: send returns a UStatus for every message kind; nothing a substrate
\* primitive raises leaves send.
C9_SendReturnsStatus == last.op = "send" => last.ret \in StatusCodes

\* C10: a send that returns a non-OK status leaves all four registries as they were.
C10_FailedSendLeavesRegistries ==
    [][(last'.op = "send" /\ last'.ret # "OK") => registries' = registries]_vars

\* the call made the collaborator call fn and it succeeded
Succeeded(calls, fn) == \E i \in 1..Len(calls) : calls[i] = Call(fn, "ok")

\* the call made one of the substrate primitives publish, query, reply
PrimitiveInvoked(calls) == Made(calls, "put") \/ Made(calls, "get") \/ Made(calls, "reply")

\* C11: for a Publish or Notification message with non-empty payload, send returns
\* OK exactly when the attribute encoding, the priority mapping and the publish
\* all succeed, returns INVALID_ARGUMENT or INTERNAL otherwise, and in both
\* outcomes leaves the four registries as they were.
C11_PublishOkIffAllSucceed ==
    [][((IsSend(last', "PUBLISH") \/ IsSend(last', "NOTIFICATION"))
        /\ last'.arg[1].payload.value # "")
       => (/\ last'.ret = "OK"
              <=> (/\ Succeeded(last'.calls, "uattributes_to_attachment")
                   /\ Succeeded(last'.calls, "map_zenoh_priority")
                   /\ Succeeded(last'.calls, "put"))
           /\ last'.ret # "OK" => last'.ret \in {"INVALID_ARGUMENT", "INTERNAL"}
           /\ registries' = registries)]_vars

\* C11's case: a Notification whose priority did not map was refused before the
\* publish, while a query is pending and a response listener is registered
C11_Witness ==
    /\ IsSend(last, "NOTIFICATION")
    /\ last.arg[1].payload.value # ""
    /\ last.calls = <<Call("uattributes_to_attachment", "ok"),
                      Call("map_zenoh_priority", "fail")>>
    /\ last.ret = "INVALID_ARGUMENT"
    /\ query_map # EmptyMap
    /\ rpc_callback_map # EmptyMap

\* C12: a message whose attributes fail the validation of its type gets
\* INVALID_ARGUMENT from send, and no substrate primitive (publish, query, reply)
\* is invoked for it.
C12_InvalidAttributesRejected ==
    (last.op = "send" /\ validate(last.arg[1].attributes) = "failure")
    => (last.ret = "INVALID_ARGUMENT" /\ ~PrimitiveInvoked(last.calls))

(***************************************************************************)
(* Properties of invoke_method (under SpecInvoke).                         *)
(***************************************************************************)
\* the call was issued (session.get was called) and has ended
Ended == inv.pc \notin {"Idle", "Rejected", "Issued"}

\* a Future resolved as a failure that carries a status of the code
FailedFuture(code) ==
    [kind |-> "future", state |-> "exception", value |-> [code |-> code]]

\* C5: every issued invoke_method call ends in Completed(ok), Completed(error) or
\* TimedOut, and hands the caller one resolved future: the reply Message on a
\* success reply, a failure carrying INTERNAL otherwise.
C5_EndsWithOneResolvedFuture ==
    Ended
    => /\ inv.pc \in {"Completed_ok", "Completed_error", "TimedOut"}
       /\ inv.result.kind = "future"
       /\ inv.pc = "Completed_ok" => inv.result.state = "result"
       /\ inv.pc # "Completed_ok" => inv.result = FailedFuture("INTERNAL")

\* the replied read from the stream so far
Consumed == Len(inv.delivered) - Len(inv.stream)

HasOk(replies) == \E i \in 1..Len(replies) : replies[i] = "ok"

FirstOk(replies) ==
    CHOOSE i \in 1..Len(replies) :
        replies[i] = "ok" /\ \A j \in 1..(i - 1) : replies[j] # "ok"

Steps(t) == Running(t) /\ threads'[t] # threads[t]

\* the values the calls of thread t have returned to it, in order
Returns(t) ==
    LET returned == SelectSeq(threads[t].calls, LAMBDA c : c[1] = "return")
    IN  [i \in 1..Len(returned) |-> returned[i][2]]

\* the register_listener of thread t has returned OK (every declaration it made
\* was granted)
RaceGranted(t) == Returns(t) = <<"OK">>

\* C13: threads that each run register_listener then unregister_listener on
\* pairwise different (topic, listener) pairs, every declaration being granted: no
\* removal finds its entry gone (no call raises), and when all have returned
\* subscriber_map, queryable_map and rpc_callback_map are empty.
C13_DisjointPairsDoNotInterfere ==
    [][/\ \A t \in Threads :
              (Steps(t) /\ At(t).do = "remove" /\ RaceGranted(t))
              => KeyOf(At(t)) \in DOMAIN RegistryOf(At(t))
       /\ (\A t \in Threads : threads'[t].ret = "None")
          => (/\ subscriber_map' = EmptyMap
              /\ queryable_map' = EmptyMap
              /\ rpc_callback_map' = EmptyMap)]_vars

(***************************************************************************)
(* Properties of requests served concurrently (under SpecRespond).         *)
(***************************************************************************)
\* the threads that hold the Query of a request id: they popped it and have not
\* called query.reply yet
Holding(id) == {t \in Threads : Running(t) /\ At(t).do = "reply" /\ At(t).arg.id = id}

\* thread t is at the return of a send_response that has made no reply call
Unanswered(t) ==
    /\ Running(t)
    /\ At(t).do = "return" /\ At(t).line = 197
    /\ (threads[t].calls = <<>> \/ threads[t].calls[Len(threads[t].calls)][1] # "reply")

\* the Query of a request id is in one place at most: tracked in query_map, held
\* by one send, or replied to once
OnePlace(id) ==
    (IF SerializeId(id) \in DOMAIN query_map THEN 1 ELSE 0)
        + Cardinality(Holding(id)) + replied[id] <= 1

\* C14: across the interleavings of Response sends for the id of one tracked
\* query, the send that pops the entry while it is tracked obtains the Query and
\* goes on to reply; no second send obtains it, the Query is never replied to
\* twice, and every send that did not obtain it returns INTERNAL without a reply.
C14_TakenExactlyOnce ==
    [][/\ \A id \in DOMAIN replied' : OnePlace(id)'
       /\ \A t \in Threads : (Steps(t) /\ Unanswered(t)) => Returned(t) = "INTERNAL"
       /\ \A t \in Threads :
              (Steps(t) /\ At(t).do = "take" /\ KeyOf(At(t)) \in DOMAIN query_map)
              => (/\ KeyOf(At(t)) \notin DOMAIN query_map'
                  /\ t \in Holding(At(t).arg.id)')]_vars

\* C14's case: of two sends for the id of one query, one holds the Query (it has
\* popped it and not replied yet) and the other, which came after the pop, has
\* returned INTERNAL without a reply
C14_Witness ==
    \E t \in Threads, u \in Threads :
        /\ t # u
        /\ threads[t].call.op = "send_response"
        /\ t \in Holding(threads[t].call.arg.id)
        /\ threads[u].call = threads[t].call
        /\ Unanswered(u)
        /\ Returned(u) = "INTERNAL"

\* no send has taken the Query of the request id
Untaken(id) == replied[id] = 0 /\ Holding(id) = {}

\* C15: the queryable callback records the Query under the request's id before it
\* calls the listener, and nothing else inserts into query_map: a step that adds
\* or replaces an entry is the callback's statement of line 284, a callback at
\* on_receive whose Query no send has taken finds it tracked, and the Response
\* its listener sends from inside on_receive pops it and goes on to the reply.
C15_TrackedBeforeOnReceive ==
    [][/\ (\E k \in DOMAIN query_map' : k \notin DOMAIN query_map \/ query_map'[k] # query_map[k])
          => \E t \in Threads :
                 /\ Steps(t)
                 /\ threads[t].call.op = "queryable_callback"
                 /\ At(t).do = "store" /\ At(t).line = 284
       /\ \A t \in Threads :
              (/\ threads[t].call.op = "queryable_callback"
               /\ Running(t)
               /\ At(t).do \in {"on_receive", "take"}
               /\ Untaken(threads[t].call.arg.id))
              => (/\ SerializeId(threads[t].call.arg.id) \in DOMAIN query_map
                  /\ (Steps(t) /\ At(t).do = "take")
                     => t \in Holding(threads[t].call.arg.id)')]_vars

\* C15's case: the listener sent the Response from inside on_receive, the send
\* found the Query and replied, and has returned OK to the listener
C15_Witness ==
    \E t \in Threads :
        /\ threads[t].call.op = "queryable_callback"
        /\ Running(t)
        /\ At(t).do = "on_receive"
        /\ threads[t].calls = <<Call("reply", "ok"), Call("return", "OK")>>
        /\ replied[threads[t].call.arg.id] = 1

\* the lock dedicated to a registry; __init__ creates none for query_map
LockOf(obj) ==
    IF obj = "subscriber_map" THEN "subscriber_lock"
    ELSE IF obj = "queryable_map" THEN "queryable_lock"
    ELSE IF obj = "rpc_callback_map" THEN "rpc_callback_lock"
    ELSE "query_lock"

\* C16: every write of subscriber_map, queryable_map, rpc_callback_map and
\* query_map, and every read that can race with a removal (the lookup of the
\* response listener, the pop of the pending query), is made by a thread that
\* holds the lock dedicated to the registry.
C16_RegistryAccessUnderLock ==
    [][\A t \in Threads :
          (Steps(t) /\ At(t).do \in {"store", "remove", "take", "lookup"})
          => LockOf(At(t).obj) \in threads[t].held]_vars


(***************************************************************************)
(* Properties of the callbacks the adapter hands to Zenoh, under            *)
(* SpecCallbacks.                                                           *)
(***************************************************************************)

Callbacks == {"subscriber_callback", "queryable_callback", "zenoh_callback"}

\* C17: a thread that is at listener.on_receive in one of the three callbacks
\* holds no lock of the adapter; a thread that is about to acquire a lock holds
\* none (so a call made from inside on_receive waits for no lock its own thread
\* holds, and no two threads wait for each other); and a thread that holds a lock
\* is at a statement that waits for nothing, so the lock is released.
C17_NoLockHeldInOnReceive ==
    \A t \in Threads :
        /\ (Running(t) /\ At(t).do = "on_receive") => threads[t].held = {}
        /\ (Running(t) /\ At(t).do = "acquire") => threads[t].held = {}
        /\ threads[t].held # {}
           => (Running(t) /\ At(t).do \in {"store", "remove", "release"})

\* a session thread whose listener called back into the adapter from inside
\* on_receive is about to acquire a lock that the application thread holds
C17_Witness ==
    \E t \in SessionThreads :
        /\ Running(t)
        /\ threads[t].call.op \in Callbacks
        /\ At(t).do = "acquire"
        /\ At(t).obj \in threads[ApplicationThread].held

(***************************************************************************)
(* Properties of a pair registered twice, under SpecOverwrite.             *)
(***************************************************************************)

\* what the declarations of the call thread t is in have done
Declared(t) ==
    LET calls == threads[t].calls
        from == IF \E i \in 1..Len(calls) : calls[i][1] = "return"
                THEN 1 + CHOOSE i \in 1..Len(calls) :
                             /\ calls[i][1] = "return"
                             /\ \A j \in (i + 1)..Len(calls) : calls[j][1] # "return"
                ELSE 1
    IN  {calls[i][2] : i \in from..Len(calls)}

\* before is the registry at a store for key and after the registry it leaves:
\* one entry for the key, with a handle that is not the one it had, and the
\* other entries as they were
Overwritten(before, after, key) ==
    /\ DOMAIN after = DOMAIN before \cup {key}
    /\ key \in DOMAIN before => after[key] # before[key]
    /\ \A other \in DOMAIN before \ {key} : after[other] = before[other]

\* before is the registry at a removal for key and after the registry it
\* leaves: an entry for the key is gone and the call goes on, and without one
\* the call raises ValueError
RemovedOrRaised(t, before, after, key) ==
    IF key \in DOMAIN before
    THEN key \notin DOMAIN after /\ threads'[t].ret = "pending"
    ELSE after = before /\ threads'[t].ret = "ValueError"

\* C18: subscriber_map and queryable_map have one entry per (serialized topic,
\* listener). A register_listener whose declarations are all granted returns OK,
\* for a pair that is registered as for one that is not, and each store leaves
\* one entry for the pair, whose handle is the one just granted and not the one
\* stored before. A removal takes the pair's entry away whole; after two
\* registrations that returned OK the first unregister_listener finds every
\* entry it removes, and after it has returned the second one raises ValueError.
C18_DoubleRegisterOverwrites ==
    [][\A t \in Threads :
          Steps(t) =>
             LET key == <<Serialize(At(t).arg.topic), At(t).arg.listener>>
                 handles == At(t).obj \in {"subscriber_map", "queryable_map"}
             IN  /\ (At(t).do = "store" /\ At(t).obj = "subscriber_map")
                    => Overwritten(subscriber_map, subscriber_map', key)
                 /\ (At(t).do = "store" /\ At(t).obj = "queryable_map")
                    => Overwritten(queryable_map, queryable_map', key)
                 /\ (At(t).do = "return" /\ At(t).obj = "status")
                    => (Returned(t) = "OK" <=> Declared(t) \subseteq {"handle"})
                 /\ (At(t).do = "remove" /\ At(t).obj = "subscriber_map")
                    => RemovedOrRaised(t, subscriber_map, subscriber_map', key)
                 /\ (At(t).do = "remove" /\ At(t).obj = "queryable_map")
                    => RemovedOrRaised(t, queryable_map, queryable_map', key)
                 /\ (At(t).do = "remove" /\ handles /\ Returns(t) = <<"OK", "OK">>)
                    => key \in DOMAIN RegistryOf(At(t))
                 /\ (At(t).do = "remove" /\ Returns(t) = <<"OK", "OK", "None">>)
                    => threads'[t].ret = "ValueError"]_vars

\* the application has registered a publish or request pair twice, with OK both
\* times, and unregistered it once, and is at the removal of the second
\* unregister_listener with no entry for the pair
C18_Witness ==
    /\ Running(ApplicationThread)
    /\ At(ApplicationThread).do = "remove"
    /\ At(ApplicationThread).obj \in {"subscriber_map", "queryable_map"}
    /\ Returns(ApplicationThread) = <<"OK", "OK", "None">>
    /\ KeyOf(At(ApplicationThread)) \notin DOMAIN RegistryOf(At(ApplicationThread))

(***************************************************************************)
(* Properties of response listeners and the Requests bound to them, under  *)
(* SpecBind.                                                               *)
(***************************************************************************)

\* the closures of the Request with an id
ClosuresOf(id) == {closure \in closures : closure.kind = "reply" /\ closure.id = id}

\* C19: rpc_callback_map has one listener per source topic, the one registered
\* last (a store for a topic that has a listener replaces it). The closure a
\* send of a Request hands to session.get holds the listener that is in
\* rpc_callback_map for the source at that send, and a reply to the Request is
\* delivered to on_receive of the listener its closure holds and of no other,
\* whichever listener is registered when the reply comes.
C19_RepliesBoundAtSend ==
    [][\A t \in Threads :
          Steps(t) =>
             LET key == Serialize(At(t).arg.topic)
             IN  /\ (At(t).do = "store" /\ At(t).obj = "rpc_callback_map")
                    => /\ DOMAIN rpc_callback_map' = DOMAIN rpc_callback_map \cup {key}
                       /\ rpc_callback_map'[key] = At(t).arg.listener
                 /\ (At(t).do = "get" /\ Running(t)')
                    => /\ key \in DOMAIN rpc_callback_map
                       /\ closures' = closures
                              \cup {Closure("reply", rpc_callback_map[key], At(t).arg.id)}
                 /\ (At(t).do = "on_receive" /\ At(t).obj = "resp_callback")
                    => ClosuresOf(At(t).arg.id)
                           = {Closure("reply", At(t).arg.listener, At(t).arg.id)}]_vars

\* a Request was sent while l1 was registered and another after l2 was
\* registered over it, and a reply to the second is at on_receive of l2
C19_Witness ==
    /\ ClosuresOf(1) = {Closure("reply", "l1", 1)}
    /\ ClosuresOf(2) = {Closure("reply", "l2", 2)}
    /\ rpc_callback_map = Put(EmptyMap, Serialize(ResponseTopic), "l2")
    /\ \E t \in SessionThreads :
           /\ Running(t)
           /\ At(t).do = "on_receive"
           /\ At(t).arg = Arg(ResponseTopic, "l2", 2)

(***************************************************************************)
(* Properties of pending queries when listeners are unregistered, under    *)
(* SpecRetract.                                                            *)
(***************************************************************************)

\* thread t is at a statement of unregister_listener or of a removal under it
InUnregister(t) == Running(t) /\ At(t).line \in 360..397

\* C20: no statement of unregister_listener, for a topic of any shape and
\* whether the call returns or raises, changes query_map; an entry of query_map
\* stays until the pop of a send_response for its id takes it.
C20_UnregisterKeepsPendingQueries ==
    [][/\ \A t \in Threads : (Steps(t) /\ InUnregister(t)) => query_map' = query_map
       /\ \A key \in DOMAIN query_map :
              key \in DOMAIN query_map'
              \/ \E t \in Threads :
                     Steps(t) /\ At(t).do = "take" /\ KeyOf(At(t)) = key]_vars

\* the request listener has been removed from queryable_map, the call that
\* removed it is about to return, and the query of a request handed to the
\* listener is in query_map
C20_Witness ==
    /\ InUnregister(ApplicationThread)
    /\ At(ApplicationThread).do = "return"
    /\ At(ApplicationThread).arg.topic = RequestTopic
    /\ queryable_map = EmptyMap
    /\ SerializeId(1) \in DOMAIN query_map

(***************************************************************************)
(* Properties of unregister_listener on the wildcard topic, under          *)
(* SpecRetract.                                                            *)
(***************************************************************************)

\* thread t is at a removal of unregister_listener on the wildcard topic
AtWildcardRemoval(t) ==
    InUnregister(t) /\ At(t).do = "remove" /\ IsWildcard(At(t).arg.topic)

\* C21: unregister_listener on the wildcard topic removes the response listener,
\* then the request listener, then the publish listener: it is at the removal
\* from queryable_map with the topic's entry gone from rpc_callback_map, and at
\* the removal from subscriber_map with the pair's entry gone from queryable_map
\* too. A removal that finds its entry takes that entry alone; one that does not
\* raises ValueError, which ends the call with the three registries as they
\* were at the raise: what was removed stays removed and what was not reached
\* stays registered.
C21_WildcardUnregisterStopsAtFirstAbsent ==
    [][\A t \in Threads :
          (Steps(t) /\ AtWildcardRemoval(t)) =>
             LET resp == Serialize(At(t).arg.topic)
                 pair == <<Serialize(At(t).arg.topic), At(t).arg.listener>>
                 obj == At(t).obj
             IN  /\ obj = "queryable_map" => resp \notin DOMAIN rpc_callback_map
                 /\ obj = "subscriber_map"
                    => (resp \notin DOMAIN rpc_callback_map
                           /\ pair \notin DOMAIN queryable_map)
                 /\ IF KeyOf(At(t)) \in DOMAIN RegistryOf(At(t))
                    THEN /\ threads'[t].ret = "pending"
                         /\ rpc_callback_map' =
                                IF obj = "rpc_callback_map"
                                THEN Pop(rpc_callback_map, resp) ELSE rpc_callback_map
                         /\ queryable_map' =
                                IF obj = "queryable_map"
                                THEN Pop(queryable_map, pair) ELSE queryable_map
                         /\ subscriber_map' =
                                IF obj = "subscriber_map"
                                THEN Pop(subscriber_map, pair) ELSE subscriber_map
                    ELSE /\ threads'[t] = Finished("ValueError")
                         /\ UNCHANGED registries]_vars

\* unregister_listener on the wildcard topic has removed the response listener
\* and is at the removal of the request listener, which is not registered,
\* while the publish listener is
C21_Witness ==
    /\ AtWildcardRemoval(ApplicationThread)
    /\ At(ApplicationThread).obj = "queryable_map"
    /\ KeyOf(At(ApplicationThread)) \notin DOMAIN queryable_map
    /\ KeyOf(At(ApplicationThread)) \in DOMAIN subscriber_map
    /\ Serialize(At(ApplicationThread).arg.topic) \notin DOMAIN rpc_callback_map

(***************************************************************************)
(* Properties of the listeners the callbacks captured, under               *)
(* SpecCallbacks.                                                          *)
(***************************************************************************)

\* thread t is at a statement of one of the three callbacks (and not of a call
\* its listener made from inside on_receive)
InCallback(t) ==
    /\ Running(t)
    /\ At(t).line \in (134..163) \cup (209..232) \cup (256..285)

\* the session holds a closure that captured the listener of the callback
\* thread t is in
Captured(t) ==
    LET arg == At(t).arg
    IN  IF At(t).line \in 134..163 THEN Closure("reply", arg.listener, arg.id) \in closures
        ELSE IF At(t).line \in 209..232
        THEN Closure("subscriber", arg.listener, 0) \in closures
        ELSE arg.listener \in session

\* what thread t has left to do comes to on_receive with no statement before it
\* that can fail
Delivers(prog) ==
    \E i \in 1..Len(prog) :
        /\ prog[i].do = "on_receive"
        /\ \A j \in 1..(i - 1) : prog[j].fail = ""

\* C22: a statement of a callback reads none of the registries and takes no lock
\* (the one registry statement is the store of the query into query_map), and
\* leaves subscriber_map, queryable_map and rpc_callback_map as they are; once
\* the message is decoded the callback comes to on_receive of the listener its
\* closure captured, whatever the registries hold. No statement of
\* unregister_listener changes what the session holds (it calls no primitive of
\* Zenoh).
C22_CallbacksUseCapturedListener ==
    [][\A t \in Threads :
          Steps(t) =>
             /\ InCallback(t)
                => /\ At(t).do \in {"decode", "on_receive", "return", "store"}
                   /\ At(t).do = "store" => At(t).obj = "query_map"
                   /\ UNCHANGED <<subscriber_map, queryable_map, rpc_callback_map>>
                   /\ (At(t).line \in {150, 223, 272} /\ threads'[t].status = "OK")
                      => Delivers(threads'[t].prog)
                   /\ At(t).do = "on_receive" => Captured(t)
             /\ InUnregister(t) => UNCHANGED <<session, closures>>]_vars

\* the subscriber callback is at on_receive of its listener while the
\* register_listener that declared the subscriber has not stored the handle yet
C22_Witness ==
    \E t \in SessionThreads :
        /\ InCallback(t)
        /\ At(t).do = "on_receive"
        /\ At(t).line = 228
        /\ <<Serialize(PublishTopic), At(t).arg.listener>> \notin DOMAIN subscriber_map
        /\ Running(ApplicationThread)
        /\ At(ApplicationThread).do = "store"
        /\ At(ApplicationThread).obj = "subscriber_map"
        /\ At(ApplicationThread).arg.listener = At(t).arg.listener
====
